---- MODULE Spec2Model ----
(***************************************************************************)
(* A model of the tool-augmented conversation turn of cliOllama.py:        *)
(* run_chat_turn, an async generator that gathers the tool catalog from    *)
(* the MCP sessions, streams a model response, executes the requested tool *)
(* calls and loops until a response carries no tool call.                  *)
(*                                                                         *)
(* Text is modelled as a sequence of tokens: a literal piece of an         *)
(* f-string is one token, an interpolated value is one token, and string   *)
(* concatenation is sequence concatenation.  The empty string is << >>.    *)
(***************************************************************************)
EXTENDS Integers, Sequences, FiniteSets, TLC

\* Bounds of the model.
MaxChunks == 2       \* chunks the model streams deliver in one turn
MaxCalls == 2        \* tool calls the model requests in one turn
MaxSessions == 2     \* providers handed to one turn (catalog specification)
CatalogChunks == 1   \* chunks per turn under the catalog specification
CatalogCalls == 1    \* tool calls per turn under the catalog specification
MaxChanges == 1      \* changes of a provider's offering during one turn

\* The inputs are drawn from these sets.
ToolNames == {"t1", "t2"}
Contents(k) == {<< >>, <<ToString(k)>>}  \* the k-th chunk: nothing, or its token
Errors == {"boom"}
NoSession == 0                \* None, what dict.get returns for a missing key
KeyErr == -1                  \* a lookup that raised KeyError
NameKeyErr == "<KeyError>"    \* a subscript of a tool-call record that raised

VARIABLES
  limits,          \* chunks and tool calls the model delivers in this turn
  sessions,        \* the sessions argument: what each list_tools() does now
  listed,          \* what each list_tools() call of this turn answered
  nchanges,        \* changes of a provider's offering during this turn
  in_flight,       \* the tool calls (by index) whose provider call is awaited
  pc,              \* where the generator stands
  i,               \* index of the session whose tools are listed next
  tools,           \* the tool list advertised to the model
  tool_to_session, \* tool name -> index of the session that provides it
  messages,        \* the message log, mutated in place
  final_message,   \* the assistant message under construction
  nchunks,         \* chunks the model has delivered in this turn
  ncalls,          \* tool-call fragments the model has delivered in this turn
  idx,             \* index of the tool call executed next
  yielded,         \* the fragments the caller has received
  chat_calls,      \* the tool list each call of ollama.chat was given
  call_log,        \* the provider calls made: session, tool name, outcome
  round_start,     \* the log as it was when the current round began
  log0,            \* the log as it was when the turn began
  rounds,          \* what each model stream has delivered: contents and tool calls
  closed           \* the caller has closed the generator at the yield pc names

\* The state of one MarkdownExtractor and of its caller.
VARIABLES
  text,            \* self.text
  code_blocks,     \* self._code_blocks: not cached (None), or the cached list
  tables,          \* self._tables: not cached (None), or the cached list
  returned,        \* the last call of a method and the value it returned
  console,         \* what the last call wrote to self.console
  first            \* the lists the first extraction of each kind returned

VARIABLES
  clipboard,       \* what pyperclip holds
  command          \* the last >> or || line the loop handled

turn == <<limits, in_flight, sessions, listed, nchanges, pc, i, tools,
          tool_to_session, messages, final_message, nchunks, ncalls, idx,
          yielded, chat_calls, call_log, round_start, log0, rounds, closed>>

extractor == <<text, code_blocks, tables, returned, console, first>>

\* The state of the interactive loop outside a turn and outside the extractor.
repl == <<clipboard, command>>

VARIABLES
  files,           \* the chat files on disk, by resolved path
  history_on_disk, \* the content of the history index file
  data,            \* self.data: the attribute is absent until a load sets it
  historyList,     \* self.historyList
  ended          \* the last call on the ChatManager and how it ended

manager == <<files, history_on_disk, data, historyList, ended>>

VARIABLES
  libraries,       \* which of sounddevice, whisper and numpy can be imported
  is_recording,    \* the loop's flag
  recording_state, \* the multimedia server's recording_state: active, buffer
  buffer,          \* the loop's input buffer
  nrecordings,     \* recordings the device has started
  replied          \* the last result of start_recording or stop_recording

voice == <<libraries, is_recording, recording_state, buffer, nrecordings,
           replied>>

vars == <<turn, extractor, repl, manager, voice>>

NotCached == [cached |-> FALSE]
Cached(value) == [cached |-> TRUE, value |-> value]

\* File contents: no file, bytes that are not UTF-8, text that is not JSON,
\* or the JSON text of a value.
Missing == [kind |-> "missing"]
NotUtf8 == [kind |-> "bytes"]
NotJson == [kind |-> "text"]
Json(value) == [kind |-> "json", value |-> value]

\* An attribute the instance does not have, and one it has.
Absent == [set |-> FALSE]
Attr(value) == [set |-> TRUE, value |-> value]

\* self.historyList is None, or a list.
NoList == [is_list |-> FALSE]
List(items) == [is_list |-> TRUE, items |-> items]

\* No ChatManager has been built.
NoManager ==
  /\ files = << >>
  /\ history_on_disk = Missing
  /\ data = Absent
  /\ historyList = NoList
  /\ ended = [call |-> "none"]

\* recording_state['buffer'] is None.
NoAudio == 0

\* The voice trigger has not been used and the server holds no recording.
NoVoice ==
  /\ libraries = "full"
  /\ is_recording = FALSE
  /\ recording_state = [active |-> FALSE, buffer |-> NoAudio]
  /\ buffer = << >>
  /\ nrecordings = 0
  /\ replied = [to |-> "none"]

\* The clipboard before the loop has copied anything to it.
Untouched == <<"<untouched>">>

\* No MarkdownExtractor has been built (mdl = None), nothing has been copied.
NoExtractor ==
  /\ clipboard = Untouched
  /\ command = [name |-> "none"]
  /\ text = << >>
  /\ code_blocks = NotCached
  /\ tables = NotCached
  /\ returned = [call |-> "none"]
  /\ console = << >>
  /\ first = [code_blocks |-> NotCached, tables |-> NotCached]

----------------------------------------------------------------------------
\* What a provider's list_tools() does: it raises, or returns its tools.
Listings ==
  {[ok |-> FALSE, tools |-> << >>]} \cup
  {[ok |-> TRUE, tools |-> l] : l \in {<<"t1">>, <<"t1", "t2">>}}

SeqsUpTo(S, n) == UNION {[1..k -> S] : k \in 0..n}

Range(s) == {s[k] : k \in DOMAIN s}

Failing == [ok |-> FALSE, tools |-> << >>]
Listing(l) == [ok |-> TRUE, tools |-> l]

\* The sessions of the turn specification: no provider (an empty catalog),
\* and one provider of t1 (t1 is found, t2 is not).
TurnSessions == { << >>, <<Listing(<<"t1">>)>> }

\* The sessions of the catalog specification: every combination.
SessionInputs == SeqsUpTo(Listings, MaxSessions)

UserMessage == [role |-> "user", content |-> <<"hi">>]

InitLogs == {<< >>, <<UserMessage>>}

\* A tool-call fragment of a chunk: its shape decides how it is normalised.
\*   model_dump : an SDK object with model_dump()
\*   dict       : an object with dict()
\*   attr       : an object with a function attribute
\*   mapping    : a plain mapping {'function': {'name': .., 'arguments': ..}}
\*   flat       : an object whose model_dump() returns {'name': .., 'arguments': ..}
Shapes == {"model_dump", "dict", "attr", "mapping"}
RecordShapes == {"model_dump", "flat"}
Arguments == {"args"}
ToolCallFragments ==
  [shape : Shapes \cup RecordShapes, name : ToolNames, arguments : Arguments]

\* The tool_calls a chunk can carry: up to n fragments of the turn's shapes.
ChunkCalls(n) ==
  SeqsUpTo({tc \in ToolCallFragments : tc.shape \in limits.shapes}, n)

\* What session.call_tool returns: content items and the isError flag, or
\* an object that has no content attribute.
TextItem(t) == [kind |-> "text_attr", text |-> t]
DictItem(t) == [kind |-> "text_dict", text |-> t]
DataItem == [kind |-> "data", text |-> "img"]
OtherItem == [kind |-> "other", text |-> "res"]  \* no text and no data
ToolResults ==
  { [isError |-> FALSE, has_content |-> TRUE,
     content |-> <<TextItem("out"), DataItem, OtherItem>>],
    [isError |-> TRUE, has_content |-> TRUE,
     content |-> <<DictItem("failed")>>],
    [isError |-> FALSE, has_content |-> FALSE, content |-> << >>] }

----------------------------------------------------------------------------
\* The catalog.

\* The entry of one listed tool; the description and the input schema of a
\* tool are those of its provider, so an entry tells which listing it is from.
ToolSpec(name, s) ==
  [type |-> "function",
   function |-> [name |-> name, description |-> s, parameters |-> s]]

ListedSpecs(listing, s) ==
  [k \in 1..Len(listing) |-> ToolSpec(listing[k], s)]

\* Mutant: an earlier registration of a name is kept.
RECURSIVE RegisterKeepsFirst(_, _, _)
RegisterKeepsFirst(map, listing, s) ==
  IF listing = << >> THEN map
  ELSE RegisterKeepsFirst(map @@ (Head(listing) :> s), Tail(listing), s)

RECURSIVE Register(_, _, _)
Register(map, listing, s) ==
  IF listing = << >> THEN map
  ELSE Register((Head(listing) :> s) @@ map, Tail(listing), s)

\* Mutant: a subscript instead of dict.get.
SessionGetStrict(map, name) ==
  IF name \in DOMAIN map THEN map[name] ELSE KeyErr

SessionGet(map, name) ==
  IF name \in DOMAIN map THEN map[name] ELSE NoSession

\* Mutant: the model is given the providers' offerings of the moment.
RECURSIVE OfferedFrom(_)
OfferedFrom(k) ==
  IF k > Len(sessions) THEN << >>
  ELSE (IF sessions[k].ok THEN ListedSpecs(sessions[k].tools, k) ELSE << >>)
       \o OfferedFrom(k + 1)

AdvertisedNow(ts) == OfferedFrom(1)

Advertised(ts) == ts   \* tools if tools else None: None is the empty list

----------------------------------------------------------------------------
\* The fragments and messages run_chat_turn builds.

OllamaError(e) == <<"\n[Ollama Error: ", e, "]">>
NotFoundFragment(fn_name) == <<"\n[Error: Tool ", fn_name, " not found]">>
ExecutingFragment(fn_name) == <<"\n[Executing tool: ", fn_name, "...]">>
ToolErrorFragment(e) == <<" [Error: ", e, "]">>

NotFoundMessage(fn_name) ==
  [role |-> "tool",
   content |-> <<"Error: Tool '", fn_name, "' not found in any active session.">>,
   name |-> fn_name]

ToolErrorMessage(fn_name, e) ==
  [role |-> "tool", content |-> <<"Error executing tool: ", e>>,
   name |-> fn_name]

ToolResultMessage(fn_name, tool_output) ==
  [role |-> "tool", content |-> tool_output, name |-> fn_name]

RECURSIVE ExtractText(_)
ExtractText(items) ==
  IF items = << >> THEN << >>
  ELSE LET it == Head(items)
           piece == IF it.kind \in {"text_attr", "text_dict"} THEN <<it.text>>
                    ELSE IF it.kind = "data" THEN <<"\n[Image output received]">>
                    ELSE << >>
       IN piece \o ExtractText(Tail(items))

NewFinalMessage ==
  [role |-> "assistant", content |-> << >>, tool_calls |-> << >>]

\* A fragment normalised to a plain record; a plain mapping has neither
\* model_dump nor dict nor a function attribute.
Raises(tc) == tc.shape = "mapping"

Normalize(tc) ==
  IF tc.shape = "flat"
  THEN [name |-> tc.name, arguments |-> tc.arguments]
  ELSE IF tc.shape \in {"model_dump", "dict"}
  THEN [function |-> [name |-> tc.name, arguments |-> tc.arguments]]
  ELSE [type |-> "function",
        function |-> [name |-> tc.name, arguments |-> tc.arguments]]

\* The number of fragments accumulated before one raises (all, when none does).
RECURSIVE GoodPrefix(_)
GoodPrefix(tcs) ==
  IF tcs = << >> \/ Raises(Head(tcs)) THEN 0 ELSE 1 + GoodPrefix(Tail(tcs))

Accumulate(fm, tcs) ==
  [fm EXCEPT !.tool_calls =
     @ \o [k \in 1..GoodPrefix(tcs) |-> Normalize(tcs[k])]]

\* Mutant: the empty tool_calls list is not deleted.
AssistantMessageKeepsEmpty(fm) == fm

AssistantMessage(fm) ==
  IF fm.tool_calls = << >>
  THEN [role |-> fm.role, content |-> fm.content]
  ELSE fm

FnName(tool_call) ==
  IF "function" \in DOMAIN tool_call /\ "name" \in DOMAIN tool_call.function
  THEN tool_call.function.name ELSE NameKeyErr

----------------------------------------------------------------------------
Start ==
  /\ pc = IF sessions = << >> THEN "open" ELSE "list"
  /\ i = 1
  /\ listed = << >>
  /\ nchanges = 0
  /\ in_flight = {}
  /\ tools = << >>
  /\ tool_to_session = << >>
  /\ final_message = NewFinalMessage
  /\ nchunks = 0
  /\ ncalls = 0
  /\ idx = 1
  /\ yielded = << >>
  /\ chat_calls = << >>
  /\ call_log = << >>
  /\ round_start = messages
  /\ log0 = messages
  /\ rounds = << >>
  /\ closed = FALSE
  /\ NoExtractor
  /\ NoManager
  /\ NoVoice

Init ==
  /\ limits = [chunks |-> MaxChunks, calls |-> MaxCalls, shapes |-> Shapes]
  /\ sessions \in TurnSessions
  /\ messages \in InitLogs
  /\ Start

InitCatalog ==
  /\ limits = [chunks |-> CatalogChunks, calls |-> CatalogCalls,
               shapes |-> Shapes]
  /\ sessions \in SessionInputs
  /\ messages \in InitLogs
  /\ Start

\* The turn with tool-call records of every form, the flat one included.
InitRecords ==
  /\ limits = [chunks |-> MaxChunks, calls |-> MaxCalls,
               shapes |-> RecordShapes]
  /\ sessions \in TurnSessions
  /\ messages \in InitLogs
  /\ Start

Yield(fragment) == yielded' = Append(yielded, fragment)

NewRound == [contents |-> << >>, calls |-> << >>]

Delivered(tcs) ==
  [k \in 1..Len(tcs) |-> [name |-> tcs[k].name, plain |-> Raises(tcs[k])]]

\* Mutant: one try around the whole loop, so a failing listing ends it.
ListToolsStopsAtFailure ==
  /\ pc = "list"
  /\ i <= Len(sessions)
  /\ IF sessions[i].ok
     THEN /\ tools' = tools \o ListedSpecs(sessions[i].tools, i)
          /\ tool_to_session' = Register(tool_to_session, sessions[i].tools, i)
     ELSE UNCHANGED <<tools, tool_to_session>>
  /\ listed' = Append(listed, sessions[i])
  /\ i' = i + 1
  /\ pc' = IF i + 1 > Len(sessions) \/ ~sessions[i].ok THEN "open" ELSE "list"
  /\ UNCHANGED <<extractor, repl, manager, voice, limits, in_flight, sessions,
                 nchanges, messages, final_message, nchunks, ncalls, idx,
                 yielded, chat_calls, call_log, round_start, log0, rounds,
                 closed>>

\* A provider's offering changes while the turn lists the providers, reads
\* a stream or stands between two rounds.
OfferingChanges ==
  /\ pc \in {"list", "open", "stream"}
  /\ nchanges < MaxChanges
  /\ nchanges' = nchanges + 1
  /\ \E k \in DOMAIN sessions :
       \E l \in Listings \ {sessions[k]} :
         sessions' = [sessions EXCEPT ![k] = l]
  /\ UNCHANGED <<extractor, repl, manager, voice, limits, in_flight, listed,
                 pc, i, tools, tool_to_session, messages, final_message,
                 nchunks, ncalls, idx, yielded, chat_calls, call_log,
                 round_start, log0, rounds, closed>>

\* One pass of the loop over the sessions: list_tools and the registration.
ListTools ==
  /\ pc = "list"
  /\ i <= Len(sessions)
  /\ IF sessions[i].ok
     THEN /\ tools' = tools \o ListedSpecs(sessions[i].tools, i)
          /\ tool_to_session' = Register(tool_to_session, sessions[i].tools, i)
     ELSE UNCHANGED <<tools, tool_to_session>>
  /\ listed' = Append(listed, sessions[i])
  /\ i' = i + 1
  /\ pc' = IF i + 1 > Len(sessions) THEN "open" ELSE "list"
  /\ UNCHANGED <<extractor, repl, manager, voice, limits, in_flight, sessions,
                 nchanges, messages, final_message, nchunks, ncalls, idx,
                 yielded, chat_calls, call_log, round_start, log0, rounds,
                 closed>>

\* ollama.chat returns a stream.
OpenStream ==
  /\ pc = "open"
  /\ chat_calls' = Append(chat_calls, Advertised(tools))
  /\ rounds' = Append(rounds, NewRound)
  /\ round_start' = messages
  /\ final_message' = NewFinalMessage
  /\ pc' = "stream"
  /\ UNCHANGED <<extractor, repl, manager, voice, limits, in_flight, sessions,
                 listed, nchanges, i, tools, tool_to_session, messages,
                 nchunks, ncalls, idx, yielded, call_log, log0, closed>>

\* ollama.chat raises.
OpenRaises ==
  /\ pc = "open"
  /\ chat_calls' = Append(chat_calls, Advertised(tools))
  /\ rounds' = Append(rounds, NewRound)
  /\ round_start' = messages
  /\ \E e \in Errors : Yield(OllamaError(e))
  /\ pc' = "y_ollama_err"
  /\ UNCHANGED <<extractor, repl, manager, voice, limits, in_flight, sessions,
                 listed, nchanges, i, tools, tool_to_session, messages,
                 final_message, nchunks, ncalls, idx, call_log, log0, closed>>

\* The tool-call part of a chunk's processing: the chunk's tool_calls are
\* read here, after its content was yielded.
AccumulateCalls(fm, rs, tcs) ==
  /\ ncalls' = ncalls + Len(tcs)
  /\ rounds' = [rs EXCEPT ![Len(rs)].calls = @ \o Delivered(tcs)]
  /\ final_message' = Accumulate(fm, tcs)
  /\ IF GoodPrefix(tcs) = Len(tcs)
     THEN pc' = "stream" /\ UNCHANGED yielded
     ELSE pc' = "y_ollama_err" /\ Yield(OllamaError("AttributeError"))

\* Mutant: the content is kept in the message under construction and the next
\* chunk is taken without yielding it.
StreamChunkBuffers ==
  /\ pc = "stream"
  /\ nchunks < limits.chunks
  /\ nchunks' = nchunks + 1
  /\ \E content \in Contents(nchunks + 1) :
       LET rs == [rounds EXCEPT ![Len(rounds)].contents = Append(@, content)]
       IN /\ final_message' = [final_message EXCEPT !.content = @ \o content]
          /\ rounds' = rs
          /\ pc' = "stream"
          /\ UNCHANGED <<ncalls, yielded>>
  /\ UNCHANGED <<extractor, repl, manager, voice, limits, in_flight, sessions,
                 listed, nchanges, i, tools, tool_to_session, messages, idx,
                 chat_calls, call_log, round_start, log0, closed>>

\* The stream delivers a chunk.
StreamChunk ==
  /\ pc = "stream"
  /\ nchunks < limits.chunks
  /\ nchunks' = nchunks + 1
  /\ \E content \in Contents(nchunks + 1) :
       LET rs == [rounds EXCEPT ![Len(rounds)].contents = Append(@, content)]
       IN IF content # << >>
          THEN /\ final_message' =
                    [final_message EXCEPT !.content = @ \o content]
               /\ Yield(content)
               /\ pc' = "y_content"
               /\ rounds' = rs
               /\ UNCHANGED ncalls
          ELSE \E tcs \in ChunkCalls(limits.calls - ncalls) :
                 AccumulateCalls(final_message, rs, tcs)
  /\ UNCHANGED <<extractor, repl, manager, voice, limits, in_flight, sessions,
                 listed, nchanges, i, tools, tool_to_session, messages, idx,
                 chat_calls, call_log, round_start, log0, closed>>

\* The caller asks for the next fragment after a content fragment.
ResumeContent ==
  /\ pc = "y_content"
  /\ ~closed
  /\ \E tcs \in ChunkCalls(limits.calls - ncalls) :
       AccumulateCalls(final_message, rounds, tcs)
  /\ UNCHANGED <<extractor, repl, manager, voice, limits, in_flight, sessions,
                 listed, nchanges, i, tools, tool_to_session, messages,
                 nchunks, idx, chat_calls, call_log, round_start, log0,
                 closed>>

\* Mutant: the handler appends the partial assistant message.
StreamRaisesKeepsPartial ==
  /\ pc = "stream"
  /\ \E e \in Errors : Yield(OllamaError(e))
  /\ messages' = Append(messages, final_message)
  /\ pc' = "y_ollama_err"
  /\ UNCHANGED <<extractor, repl, manager, voice, limits, in_flight, sessions,
                 listed, nchanges, i, tools, tool_to_session, final_message,
                 nchunks, ncalls, idx, chat_calls, call_log, round_start,
                 log0, rounds, closed>>

\* Iterating the stream raises.
StreamRaises ==
  /\ pc = "stream"
  /\ \E e \in Errors : Yield(OllamaError(e))
  /\ pc' = "y_ollama_err"
  /\ UNCHANGED <<extractor, repl, manager, voice, limits, in_flight, sessions,
                 listed, nchanges, i, tools, tool_to_session, messages,
                 final_message, nchunks, ncalls, idx, chat_calls, call_log,
                 round_start, log0, rounds, closed>>

\* The caller resumes after the diagnostic: return.
ResumeOllamaError ==
  /\ pc = "y_ollama_err"
  /\ ~closed
  /\ pc' = "failed"
  /\ UNCHANGED <<extractor, repl, manager, voice, limits, in_flight, sessions,
                 listed, nchanges, i, tools, tool_to_session, messages,
                 final_message, nchunks, ncalls, idx, yielded, chat_calls,
                 call_log, round_start, log0, rounds, closed>>

\* Mutant: the message is appended as accumulated, the empty list included.
StreamEndAppendsAccumulated ==
  /\ pc = "stream"
  /\ messages' = Append(messages, final_message)
  /\ idx' = 1
  /\ pc' = IF final_message.tool_calls = << >> THEN "done" ELSE "tools"
  /\ UNCHANGED <<extractor, repl, manager, voice, limits, in_flight, sessions,
                 listed, nchanges, i, tools, tool_to_session, final_message,
                 nchunks, ncalls, yielded, chat_calls, call_log, round_start,
                 log0, rounds, closed>>

\* Mutant: the turn ends after every completed stream.
StreamEndAlwaysBreaks ==
  /\ pc = "stream"
  /\ messages' = Append(messages, AssistantMessage(final_message))
  /\ final_message' = AssistantMessage(final_message)
  /\ idx' = 1
  /\ pc' = "done"
  /\ UNCHANGED <<extractor, repl, manager, voice, limits, in_flight, sessions,
                 listed, nchanges, i, tools, tool_to_session, nchunks, ncalls,
                 yielded, chat_calls, call_log, round_start, log0, rounds,
                 closed>>

\* Mutant: the assistant message takes the place of the last message of the
\* log.
StreamEndOverwrites ==
  /\ pc = "stream"
  /\ messages' = IF messages = << >>
                  THEN <<AssistantMessage(final_message)>>
                  ELSE [messages EXCEPT ![Len(messages)] =
                          AssistantMessage(final_message)]
  /\ final_message' = AssistantMessage(final_message)
  /\ idx' = 1
  /\ pc' = IF final_message.tool_calls = << >> THEN "done" ELSE "tools"
  /\ UNCHANGED <<extractor, repl, manager, voice, limits, in_flight, sessions,
                 listed, nchanges, i, tools, tool_to_session, nchunks, ncalls,
                 yielded, chat_calls, call_log, round_start, log0, rounds,
                 closed>>

\* The stream ends: the assistant message is appended.
StreamEnd ==
  /\ pc = "stream"
  /\ messages' = Append(messages, AssistantMessage(final_message))
  /\ final_message' = AssistantMessage(final_message)
  /\ idx' = 1
  /\ pc' = IF final_message.tool_calls = << >> THEN "done" ELSE "tools"
  /\ UNCHANGED <<extractor, repl, manager, voice, limits, in_flight, sessions,
                 listed, nchanges, i, tools, tool_to_session, nchunks, ncalls,
                 yielded, chat_calls, call_log, round_start, log0, rounds,
                 closed>>

\* Mutant: the batch is left after its first call.
NextCallLeavesBatch ==
  /\ idx' = idx + 1
  /\ pc' = "open"

\* After a tool call: the next one, or back to the top of the loop.
NextCall ==
  /\ idx' = idx + 1
  /\ pc' = IF idx + 1 > Len(final_message.tool_calls) THEN "open" ELSE "tools"

\* The head of the loop over the tool calls, up to its first yield.
DispatchToolCall ==
  /\ pc = "tools"
  /\ LET fn_name == FnName(final_message.tool_calls[idx])
         session == IF fn_name = NameKeyErr THEN KeyErr
                    ELSE SessionGet(tool_to_session, fn_name)
     IN IF session = KeyErr
        THEN pc' = "raised" /\ UNCHANGED <<messages, yielded>>
        ELSE IF session = NoSession
        THEN /\ messages' = Append(messages, NotFoundMessage(fn_name))
             /\ Yield(NotFoundFragment(fn_name))
             /\ pc' = "y_notfound"
        ELSE /\ Yield(ExecutingFragment(fn_name))
             /\ pc' = "y_exec"
             /\ UNCHANGED messages
  /\ UNCHANGED <<extractor, repl, manager, voice, limits, in_flight, sessions,
                 listed, nchanges, i, tools, tool_to_session, final_message,
                 nchunks, ncalls, idx, chat_calls, call_log, round_start,
                 log0, rounds, closed>>

\* The caller resumes after the not-found diagnostic: continue.
ResumeNotFound ==
  /\ pc = "y_notfound"
  /\ ~closed
  /\ NextCall
  /\ UNCHANGED <<extractor, repl, manager, voice, limits, in_flight, sessions,
                 listed, nchanges, i, tools, tool_to_session, messages,
                 final_message, nchunks, ncalls, yielded, chat_calls,
                 call_log, round_start, log0, rounds, closed>>

Called(session, fn_name, outcome) ==
  call_log' = Append(call_log, [session |-> session, name |-> fn_name,
                                outcome |-> outcome])

\* Mutant: the call is started and the loop goes on without awaiting it.
StartCallNoAwait ==
  /\ pc = "y_exec"
  /\ ~closed
  /\ in_flight' = in_flight \cup {idx}
  /\ NextCall
  /\ UNCHANGED <<extractor, repl, manager, voice, limits, sessions, listed,
                 nchanges, i, tools, tool_to_session, messages, final_message,
                 nchunks, ncalls, yielded, chat_calls, call_log, round_start,
                 log0, rounds, closed>>

\* The caller resumes after the executing fragment: session.call_tool is
\* called and awaited.
StartCall ==
  /\ pc = "y_exec"
  /\ ~closed
  /\ in_flight' = in_flight \cup {idx}
  /\ pc' = "calling"
  /\ UNCHANGED <<extractor, repl, manager, voice, limits, sessions, listed,
                 nchanges, i, tools, tool_to_session, messages, final_message,
                 nchunks, ncalls, idx, yielded, chat_calls, call_log,
                 round_start, log0, rounds, closed>>

\* The provider's call_tool returns a result.
CallToolReturns ==
  /\ pc = "calling"
  /\ in_flight' = in_flight \ {idx}
  /\ LET fn_name == FnName(final_message.tool_calls[idx])
         session == SessionGet(tool_to_session, fn_name)
     IN \E result \in ToolResults :
          IF result.has_content
          THEN /\ Called(session, fn_name,
                         IF result.isError THEN "error_result" ELSE "ok")
               /\ messages' =
                    Append(messages,
                           ToolResultMessage(fn_name,
                                             ExtractText(result.content)))
               /\ NextCall
               /\ UNCHANGED yielded
          ELSE /\ Called(session, fn_name, "malformed_result")
               /\ messages' =
                    Append(messages,
                           ToolErrorMessage(fn_name, "AttributeError"))
               /\ Yield(ToolErrorFragment("AttributeError"))
               /\ pc' = "y_toolerr"
               /\ UNCHANGED idx
  /\ UNCHANGED <<extractor, repl, manager, voice, limits, sessions, listed,
                 nchanges, i, tools, tool_to_session, final_message, nchunks,
                 ncalls, chat_calls, round_start, log0, rounds, closed>>

\* The provider's call_tool raises.
CallToolRaises ==
  /\ pc = "calling"
  /\ in_flight' = in_flight \ {idx}
  /\ LET fn_name == FnName(final_message.tool_calls[idx])
         session == SessionGet(tool_to_session, fn_name)
     IN /\ Called(session, fn_name, "raised")
        /\ \E e \in Errors :
             /\ messages' = Append(messages, ToolErrorMessage(fn_name, e))
             /\ Yield(ToolErrorFragment(e))
  /\ pc' = "y_toolerr"
  /\ UNCHANGED <<extractor, repl, manager, voice, limits, sessions, listed,
                 nchanges, i, tools, tool_to_session, final_message, nchunks,
                 ncalls, idx, chat_calls, round_start, log0, rounds, closed>>

\* The caller resumes after the tool-error diagnostic: the loop goes on.
ResumeToolError ==
  /\ pc = "y_toolerr"
  /\ ~closed
  /\ NextCall
  /\ UNCHANGED <<extractor, repl, manager, voice, limits, in_flight, sessions,
                 listed, nchanges, i, tools, tool_to_session, messages,
                 final_message, nchunks, ncalls, yielded, chat_calls,
                 call_log, round_start, log0, rounds, closed>>

YieldPoints ==
  {"y_content", "y_ollama_err", "y_notfound", "y_exec", "y_toolerr"}

\* Mutant: a cleanup on exit appends the assistant message under construction.
CloseAppendsPartial ==
  /\ pc \in YieldPoints
  /\ ~closed
  /\ closed' = TRUE
  /\ messages' = IF pc = "y_content" THEN Append(messages, final_message)
                 ELSE messages
  /\ UNCHANGED <<extractor, repl, manager, voice, limits, in_flight, sessions,
                 listed, nchanges, pc, i, tools, tool_to_session,
                 final_message, nchunks, ncalls, idx, yielded, chat_calls,
                 call_log, round_start, log0, rounds>>

\* The caller closes the generator while it is suspended at a yield:
\* GeneratorExit is no Exception, so no handler of run_chat_turn catches it.
Close ==
  /\ pc \in YieldPoints
  /\ ~closed
  /\ closed' = TRUE
  /\ UNCHANGED <<extractor, repl, manager, voice, limits, in_flight, sessions,
                 listed, nchanges, pc, i, tools, tool_to_session, messages,
                 final_message, nchunks, ncalls, idx, yielded, chat_calls,
                 call_log, round_start, log0, rounds>>

Next ==
  \/ ListTools
  \/ OpenStream
  \/ OpenRaises
  \/ StreamChunk
  \/ ResumeContent
  \/ StreamRaises
  \/ ResumeOllamaError
  \/ StreamEnd
  \/ DispatchToolCall
  \/ ResumeNotFound
  \/ StartCall
  \/ CallToolReturns
  \/ CallToolRaises
  \/ ResumeToolError
  \/ Close
  \/ OfferingChanges

Spec == Init /\ [][Next]_vars

SpecCatalog == InitCatalog /\ [][Next]_vars

\* The turn over tool-call records of every form.
SpecRecords == InitRecords /\ [][Next]_vars

\* The turn with a caller that keeps consuming, streams that end and provider
\* calls that return or raise: a step that can be taken is taken.
SpecLive == Init /\ [][Next]_vars /\ WF_vars(Next)

----------------------------------------------------------------------------
\* MarkdownExtractor (markedownExtractor.py).  A text is a sequence of
\* characters, each a string of length one; the backtick has a name.

Backtick == "BACKTICK"
None == <<"None">>          \* Python's None: no sequence of characters
Whitespace == {" ", "\n"}   \* what str.strip() removes, as far as the texts go
LangClass == {"p", "x", "-"}  \* [a-zA-Z0-9_-], as far as the texts go

RECURSIVE Join(_)
Join(parts) == IF parts = << >> THEN << >> ELSE Head(parts) \o Join(Tail(parts))

RECURSIVE LStrip(_)
LStrip(t) ==
  IF t # << >> /\ Head(t) \in Whitespace THEN LStrip(Tail(t)) ELSE t

RECURSIVE RStrip(_)
RStrip(t) ==
  IF t # << >> /\ t[Len(t)] \in Whitespace
  THEN RStrip(SubSeq(t, 1, Len(t) - 1)) ELSE t

Strip(t) == RStrip(LStrip(t))

\* The first index at or after p where t has a character outside S
\* (Len(t) + 1 when there is none).
RECURSIVE SkipWhile(_, _, _)
SkipWhile(t, p, S) ==
  IF p <= Len(t) /\ t[p] \in S THEN SkipWhile(t, p + 1, S) ELSE p

\* Three backticks start at p.
IsFence(t, p) ==
  /\ p + 2 <= Len(t)
  /\ t[p] = Backtick /\ t[p + 1] = Backtick /\ t[p + 2] = Backtick

\* The first index at or after p where three backticks start (0: none).
RECURSIVE FindFence(_, _)
FindFence(t, p) ==
  IF p + 2 > Len(t) THEN 0
  ELSE IF IsFence(t, p) THEN p ELSE FindFence(t, p + 1)

NoMatch == [ok |-> FALSE]

\* A fenced block matched at p: the fence, the longest run of characters of
\* class, a newline, and the shortest text up to three backticks.
CodeMatchWith(t, p, class) ==
  IF ~IsFence(t, p) THEN NoMatch
  ELSE LET q == SkipWhile(t, p + 3, class)
       IN IF ~(q <= Len(t) /\ t[q] = "\n") THEN NoMatch
          ELSE LET r == FindFence(t, q + 1)
               IN IF r = 0 THEN NoMatch
                  ELSE [ok |-> TRUE, lang |-> SubSeq(t, p + 3, q - 1),
                        code |-> SubSeq(t, q + 1, r - 1), end |-> r + 3]

\* _code_block_pattern matched at p.
CodeMatchAt(t, p) == CodeMatchWith(t, p, LangClass)

CodeBlock(m) ==
  [language |-> IF Strip(m.lang) = << >> THEN None ELSE Strip(m.lang),
   code |-> Strip(m.code)]

\* finditer of _code_block_pattern from p on, each match made a block.
RECURSIVE CodeBlocksFrom(_, _)
CodeBlocksFrom(t, p) ==
  IF p > Len(t) THEN << >>
  ELSE LET m == CodeMatchAt(t, p)
       IN IF m.ok THEN <<CodeBlock(m)>> \o CodeBlocksFrom(t, m.end)
          ELSE CodeBlocksFrom(t, p + 1)

\* One repetition of \|.*?\|\n at p: the index after it (0: no match).  The
\* dot stops at a newline, so the second pipe stands before the first newline.
RowEnd(t, p) ==
  IF ~(p <= Len(t) /\ t[p] = "|") THEN 0
  ELSE LET e == SkipWhile(t, p + 1, {c \in Range(t) : c # "\n"})
       IN IF e <= Len(t) /\ e - 1 > p /\ t[e - 1] = "|" THEN e + 1 ELSE 0

\* The index after the longest run of repetitions that starts at p.
RECURSIVE RowsEnd(_, _)
RowsEnd(t, p) == IF RowEnd(t, p) = 0 THEN p ELSE RowsEnd(t, RowEnd(t, p))

\* \|\s*:?-{3,}:?\s*\| matched at a.
SeparatorAt(t, a) ==
  /\ t[a] = "|"
  /\ LET b == SkipWhile(t, a + 1, Whitespace)
         c == IF b <= Len(t) /\ t[b] = ":" THEN b + 1 ELSE b
         d == SkipWhile(t, c, {"-"})
         f == IF d <= Len(t) /\ t[d] = ":" THEN d + 1 ELSE d
         g == SkipWhile(t, f, Whitespace)
     IN d - c >= 3 /\ g <= Len(t) /\ t[g] = "|"

HasSeparator(t) == \E a \in DOMAIN t : SeparatorAt(t, a)

\* finditer of _table_pattern from p on, the matches with a separator kept.
RECURSIVE TablesFrom(_, _)
TablesFrom(t, p) ==
  IF p > Len(t) THEN << >>
  ELSE LET e == RowsEnd(t, p)
       IN IF e = p THEN TablesFrom(t, p + 1)
          ELSE LET table == Strip(SubSeq(t, p, e - 1))
               IN (IF HasSeparator(table) THEN <<table>> ELSE << >>)
                  \o TablesFrom(t, e)

\* The texts an extractor is built on: up to MaxPieces pieces of a text with
\* code fences, or up to MaxLines lines of a text with tables, the last line
\* with or without its newline.
MaxPieces == 6
MaxLines == 3
MaxIndex == 2

CodePieces == {<<Backtick, Backtick, Backtick>>, <<"p">>, <<"+">>, <<"\n">>}
CodeTexts == {Join(ps) : ps \in SeqsUpTo(CodePieces, MaxPieces)}

TableLines ==
  { <<"|", "x", "|">>, <<"|", "-", "-", "-", "|">>, <<"x", "|", "x", "|">>,
    <<"x">> }
Terminated(ls) == Join([k \in DOMAIN ls |-> ls[k] \o <<"\n">>])
TableTexts ==
  UNION {{Terminated(ls), SubSeq(Terminated(ls), 1, Len(Terminated(ls)) - 1)}
         : ls \in SeqsUpTo(TableLines, MaxLines)}

Texts == CodeTexts \cup TableTexts
Indexes == (0 - 1)..MaxIndex

\* No turn is running.
IdleTurn ==
  /\ limits = [chunks |-> 0, calls |-> 0, shapes |-> {}]
  /\ sessions = << >>
  /\ messages = << >>
  /\ pc = "idle"
  /\ i = 1 /\ listed = << >> /\ nchanges = 0 /\ in_flight = {}
  /\ tools = << >> /\ tool_to_session = << >>
  /\ final_message = NewFinalMessage
  /\ nchunks = 0 /\ ncalls = 0 /\ idx = 1
  /\ yielded = << >> /\ chat_calls = << >> /\ call_log = << >>
  /\ round_start = << >> /\ log0 = << >> /\ rounds = << >>
  /\ closed = FALSE

\* MarkdownExtractor(markdown_text).
InitExtractor ==
  /\ text \in Texts
  /\ clipboard = Untouched
  /\ command = [name |-> "none"]
  /\ code_blocks = NotCached
  /\ tables = NotCached
  /\ returned = [call |-> "__init__"]
  /\ console = << >>
  /\ first = [code_blocks |-> NotCached, tables |-> NotCached]
  /\ IdleTurn
  /\ NoManager
  /\ NoVoice

Built == returned.call # "none"

\* What extract_tables and extract_code_blocks return: the cached list, or
\* the list computed from the text.
TablesNow == IF tables.cached THEN tables.value ELSE TablesFrom(text, 1)
CodeBlocksNow ==
  IF code_blocks.cached THEN code_blocks.value ELSE CodeBlocksFrom(text, 1)

FirstTables(value) ==
  [first EXCEPT !.tables = IF @.cached THEN @ ELSE Cached(value)]
FirstCodeBlocks(value) ==
  [first EXCEPT !.code_blocks = IF @.cached THEN @ ELSE Cached(value)]

\* What the console is given.
ConsolePrint(line) == [op |-> "print", arg |-> line]
ConsoleRule(title) == [op |-> "rule", arg |-> title]
ConsoleMarkdown(source) == [op |-> "print_markdown", arg |-> source]

\* Mutant: a negative index counts from the end of the list, as ts[index]
\* does in Python.
TableOutputWraps(ts, index) ==
  IF ts = << >> THEN <<ConsolePrint(<<"[yellow]No tables found.[/yellow]">>)>>
  ELSE IF ~(0 - Len(ts) <= index /\ index <= Len(ts) - 1)
  THEN <<ConsolePrint(<<"[red]Invalid table index:[/red] ", ToString(index)>>)>>
  ELSE <<ConsoleRule(<<"Table ", ToString(index)>>),
         ConsoleMarkdown(ts[(index % Len(ts)) + 1])>>

\* print_table(index) on the list ts.
TableOutput(ts, index) ==
  IF ts = << >> THEN <<ConsolePrint(<<"[yellow]No tables found.[/yellow]">>)>>
  ELSE IF ~(0 <= index /\ index <= Len(ts) - 1)
  THEN <<ConsolePrint(<<"[red]Invalid table index:[/red] ", ToString(index)>>)>>
  ELSE <<ConsoleRule(<<"Table ", ToString(index)>>),
         ConsoleMarkdown(ts[index + 1])>>

\* print_code(index) on the list bs.
CodeOutput(bs, index) ==
  IF bs = << >>
  THEN <<ConsolePrint(<<"[yellow]No code blocks found.[/yellow]">>)>>
  ELSE IF ~(0 <= index /\ index <= Len(bs) - 1)
  THEN <<ConsolePrint(<<"[red]Invalid code block index:[/red] ",
                        ToString(index)>>)>>
  ELSE LET block == bs[index + 1]
           lang == IF block.language = None THEN <<"t", "e", "x", "t">>
                   ELSE block.language
       IN <<ConsoleRule(<<"Code Block ", ToString(index), " (">> \o lang
                        \o <<")">>),
            ConsoleMarkdown(<<Backtick, Backtick, Backtick>> \o lang
                            \o <<"\n">> \o block.code
                            \o <<"\n", Backtick, Backtick, Backtick>>)>>

\* print_tables and print_code_blocks.
TablesOutput(ts) ==
  IF ts = << >> THEN <<ConsolePrint(<<"[yellow]No tables found.[/yellow]">>)>>
  ELSE Join([k \in DOMAIN ts |-> TableOutput(ts, k - 1)])

CodeBlocksOutput(bs) ==
  IF bs = << >>
  THEN <<ConsolePrint(<<"[yellow]No code blocks found.[/yellow]">>)>>
  ELSE Join([k \in DOMAIN bs |-> CodeOutput(bs, k - 1)])

AllOutput(ts, bs) ==
  <<ConsolePrint(<<"\n[bold cyan]Extracted Tables:[/bold cyan]">>)>>
  \o TablesOutput(ts)
  \o <<ConsolePrint(<<"\n[bold cyan]Extracted Code Blocks:[/bold cyan]">>)>>
  \o CodeBlocksOutput(bs)

\* Mutant: the computed list is stored in the other cache.
extract_code_blocks_in_tables ==
  /\ Built
  /\ tables' = IF code_blocks.cached THEN tables ELSE Cached(CodeBlocksNow)
  /\ returned' = [call |-> "extract_code_blocks", value |-> CodeBlocksNow]
  /\ first' = FirstCodeBlocks(CodeBlocksNow)
  /\ console' = << >>
  /\ UNCHANGED <<text, code_blocks, turn, repl, manager, voice>>

extract_code_blocks ==
  /\ Built
  /\ code_blocks' = Cached(CodeBlocksNow)
  /\ returned' = [call |-> "extract_code_blocks", value |-> CodeBlocksNow]
  /\ first' = FirstCodeBlocks(CodeBlocksNow)
  /\ console' = << >>
  /\ UNCHANGED <<text, tables, turn, repl, manager, voice>>

extract_tables ==
  /\ Built
  /\ tables' = Cached(TablesNow)
  /\ returned' = [call |-> "extract_tables", value |-> TablesNow]
  /\ first' = FirstTables(TablesNow)
  /\ console' = << >>
  /\ UNCHANGED <<text, code_blocks, turn, repl, manager, voice>>

extract_all ==
  /\ Built
  /\ tables' = Cached(TablesNow)
  /\ code_blocks' = Cached(CodeBlocksNow)
  /\ returned' = [call |-> "extract_all",
                  value |-> [tables |-> TablesNow,
                             code_blocks |-> CodeBlocksNow]]
  /\ first' = [tables |-> FirstTables(TablesNow).tables,
               code_blocks |-> FirstCodeBlocks(CodeBlocksNow).code_blocks]
  /\ console' = << >>
  /\ UNCHANGED <<text, turn, repl, manager, voice>>

print_table ==
  /\ Built
  /\ \E index \in Indexes :
       /\ console' = TableOutput(TablesNow, index)
       /\ returned' = [call |-> "print_table", index |-> index]
  /\ tables' = Cached(TablesNow)
  /\ first' = FirstTables(TablesNow)
  /\ UNCHANGED <<text, code_blocks, turn, repl, manager, voice>>

print_code ==
  /\ Built
  /\ \E index \in Indexes :
       /\ console' = CodeOutput(CodeBlocksNow, index)
       /\ returned' = [call |-> "print_code", index |-> index]
  /\ code_blocks' = Cached(CodeBlocksNow)
  /\ first' = FirstCodeBlocks(CodeBlocksNow)
  /\ UNCHANGED <<text, tables, turn, repl, manager, voice>>

print_tables ==
  /\ Built
  /\ console' = TablesOutput(TablesNow)
  /\ returned' = [call |-> "print_tables"]
  /\ tables' = Cached(TablesNow)
  /\ first' = FirstTables(TablesNow)
  /\ UNCHANGED <<text, code_blocks, turn, repl, manager, voice>>

print_code_blocks ==
  /\ Built
  /\ console' = CodeBlocksOutput(CodeBlocksNow)
  /\ returned' = [call |-> "print_code_blocks"]
  /\ code_blocks' = Cached(CodeBlocksNow)
  /\ first' = FirstCodeBlocks(CodeBlocksNow)
  /\ UNCHANGED <<text, tables, turn, repl, manager, voice>>

print_all ==
  /\ Built
  /\ console' = AllOutput(TablesNow, CodeBlocksNow)
  /\ returned' = [call |-> "print_all"]
  /\ tables' = Cached(TablesNow)
  /\ code_blocks' = Cached(CodeBlocksNow)
  /\ first' = [tables |-> FirstTables(TablesNow).tables,
               code_blocks |-> FirstCodeBlocks(CodeBlocksNow).code_blocks]
  /\ UNCHANGED <<text, turn, repl, manager, voice>>

NextExtractor ==
  \/ extract_code_blocks
  \/ extract_tables
  \/ extract_all
  \/ print_table
  \/ print_code
  \/ print_tables
  \/ print_code_blocks
  \/ print_all

SpecExtractor == InitExtractor /\ [][NextExtractor]_vars

----------------------------------------------------------------------------
\* The >> and || lines of the interactive loop.  The loop's console and the
\* extractor's console write to the same terminal: console is what the
\* handling of the last line wrote.

\* What follows >> or ||, stripped: nothing, something int() rejects, or the
\* integer int() makes of it.
IndexParts ==
  {[kind |-> "empty"], [kind |-> "invalid"]}
  \cup {[kind |-> "int", value |-> k] : k \in Indexes}

\* The loop holds the extractor of the last response, or none (mdl = None).
InitCommands ==
  \/ InitExtractor
  \/ NoExtractor /\ IdleTurn /\ NoManager /\ NoVoice

\* user_input.startswith('>>')
code_command ==
  \E idx_part \in IndexParts :
    /\ command' = [name |-> ">>", idx_part |-> idx_part]
    /\ IF ~Built
       THEN /\ console' = <<ConsolePrint(
                 <<"[yellow]No response generated yet to extract from.[/yellow]">>)>>
            /\ UNCHANGED <<text, code_blocks, tables, returned, first,
                           clipboard>>
       ELSE IF idx_part.kind = "empty"
       THEN /\ console' = CodeBlocksOutput(CodeBlocksNow)
            /\ returned' = [call |-> "print_code_blocks"]
            /\ code_blocks' = Cached(CodeBlocksNow)
            /\ first' = FirstCodeBlocks(CodeBlocksNow)
            /\ UNCHANGED <<text, tables, clipboard>>
       ELSE IF idx_part.kind = "invalid"
       THEN /\ console' = <<ConsolePrint(
                 <<"[red]Invalid index for >> command.[/red]">>)>>
            /\ UNCHANGED <<text, code_blocks, tables, returned, first,
                           clipboard>>
       ELSE LET index == idx_part.value
                blocks == CodeBlocksNow
                inside == 0 <= index /\ index < Len(blocks)
            IN /\ console' =
                    CodeOutput(blocks, index)
                    \o (IF inside
                        THEN <<ConsolePrint(
                                 <<"[dim]Code copied to clipboard.[/dim]">>)>>
                        ELSE << >>)
               /\ clipboard' = IF inside THEN blocks[index + 1].code
                               ELSE clipboard
               /\ returned' = [call |-> "extract_code_blocks",
                               value |-> blocks]
               /\ code_blocks' = Cached(blocks)
               /\ first' = FirstCodeBlocks(blocks)
               /\ UNCHANGED <<text, tables>>
    /\ UNCHANGED <<turn, manager, voice>>

\* user_input.startswith('||')
table_command ==
  \E idx_part \in IndexParts :
    /\ command' = [name |-> "||", idx_part |-> idx_part]
    /\ IF ~Built
       THEN /\ console' = <<ConsolePrint(
                 <<"[yellow]No response generated yet to extract from.[/yellow]">>)>>
            /\ UNCHANGED <<text, code_blocks, tables, returned, first,
                           clipboard>>
       ELSE IF idx_part.kind = "empty"
       THEN /\ console' = TablesOutput(TablesNow)
            /\ returned' = [call |-> "print_tables"]
            /\ tables' = Cached(TablesNow)
            /\ first' = FirstTables(TablesNow)
            /\ UNCHANGED <<text, code_blocks, clipboard>>
       ELSE IF idx_part.kind = "invalid"
       THEN /\ console' = <<ConsolePrint(
                 <<"[red]Invalid index for || command.[/red]">>)>>
            /\ UNCHANGED <<text, code_blocks, tables, returned, first,
                           clipboard>>
       ELSE LET index == idx_part.value
                found == TablesNow
                inside == 0 <= index /\ index < Len(found)
            IN /\ console' =
                    TableOutput(found, index)
                    \o (IF inside
                        THEN <<ConsolePrint(
                                 <<"[dim]Table copied to clipboard.[/dim]">>)>>
                        ELSE << >>)
               /\ clipboard' = IF inside THEN found[index + 1] ELSE clipboard
               /\ returned' = [call |-> "extract_tables", value |-> found]
               /\ tables' = Cached(found)
               /\ first' = FirstTables(found)
               /\ UNCHANGED <<text, code_blocks>>
    /\ UNCHANGED <<turn, manager, voice>>

NextCommands ==
  \/ code_command
  \/ table_command

SpecCommands == InitCommands /\ [][NextCommands]_vars

----------------------------------------------------------------------------
\* ChatManager: the chat files and the history index.

MaxModels == 2

\* File names as the caller gives them, and the paths they resolve to in the
\* working directory.  load_from_file strips the name first, save_file does
\* not.
Filenames == {"a.json", "./a.json", "b.json"}
LoadNames == Filenames \cup {" b.json"}
StripName(name) == IF name = " b.json" THEN "b.json" ELSE name
Resolve(name) ==
  IF name \in {"a.json", "./a.json"} THEN "/cwd/a.json" ELSE "/cwd/b.json"
Paths == {Resolve(name) : name \in Filenames}

Models == {"m" \o ToString(k) : k \in 1..MaxModels}
NoModel == "<None>"

\* JSON values of a chat file: null, an object without 'model', and what
\* save_file writes.
JsonNull == [null |-> TRUE]
ChatData(_model, _history) == [model |-> _model, history |-> _history]
InitialContents ==
  {Missing, NotUtf8, NotJson, Json(JsonNull), Json([history |-> "h"]),
   Json(ChatData("m1", "h"))}

\* The history index on disk: absent, not JSON, or a list save_history_file
\* wrote.
Entry(_filename) == [fileName |-> _filename, path |-> Resolve(_filename)]
Index(kind, items) == [kind |-> kind, items |-> items]
InitialIndexes ==
  {Index("missing", << >>), Index("text", << >>), Index("json", << >>),
   Index("json", <<Entry("a.json"), Entry("b.json")>>)}

\* ChatManager(_file_path): with a path, historyList is the list in the index
\* file, or [] when loading it fails; with None, historyList stays None.
InitManager ==
  /\ files \in [Paths -> InitialContents]
  /\ history_on_disk \in InitialIndexes
  /\ \E _file_path \in {"None", ".historyList.json"} :
       historyList =
         IF _file_path = "None" THEN NoList
         ELSE IF history_on_disk.kind = "json"
         THEN List(history_on_disk.items)
         ELSE List(<< >>)
  /\ data = Absent
  /\ ended = [call |-> "__init__"]
  /\ IdleTurn
  /\ NoExtractor
  /\ NoVoice

Ends(call, raised) == [call |-> call, raised |-> raised]

load_from_file ==
  /\ \E file_path \in LoadNames :
       LET path == Resolve(StripName(file_path))
           content == files[path]
           ends(raised) == [call |-> "load_from_file", raised |-> raised,
                            file_path |-> file_path]
       IN IF content.kind = "missing"
          THEN ended' = ends("ChatManagerError") /\ UNCHANGED data
          ELSE IF content.kind = "bytes"
          THEN ended' = ends("UnicodeDecodeError") /\ UNCHANGED data
          ELSE IF content.kind = "text"
          THEN ended' = ends("ChatManagerError") /\ UNCHANGED data
          ELSE ended' = ends("none") /\ data' = Attr(content.value)
  /\ UNCHANGED <<files, history_on_disk, historyList, turn, extractor, repl,
                 voice>>

get_model ==
  /\ ended' =
       IF ~data.set THEN Ends("get_model", "AttributeError")
       ELSE [call |-> "get_model", raised |-> "none",
             value |-> IF data.value = JsonNull THEN NoModel
                       ELSE IF "model" \in DOMAIN data.value
                       THEN data.value.model
                       ELSE NoModel]
  /\ UNCHANGED <<files, history_on_disk, data, historyList, turn, extractor,
                 repl, voice>>

\* Mutant: the entries of the saved path are kept.
KeepsAll(items, path) == items

\* The entries of the other paths, in their order.
Deduplicated(items, path) == SelectSeq(items, LAMBDA item : item.path # path)

\* save_file, with save_history_file; open() can fail on either file.
save_file ==
  /\ \E _filename \in Filenames, _model \in Models,
        failing \in {"none", "chat file", "history file"} :
       LET path == Resolve(_filename)
           new_entry == [fileName |-> _filename, path |-> path]
           ends(raised) == [call |-> "save_file", raised |-> raised,
                            path |-> path]
       IN IF failing = "chat file"
          THEN /\ ended' = ends("OSError")
               /\ UNCHANGED <<files, historyList, history_on_disk>>
          ELSE /\ files' = [files EXCEPT ![path] = Json(ChatData(_model, "h"))]
               /\ IF ~historyList.is_list
                  THEN /\ ended' = ends("TypeError")
                       /\ UNCHANGED <<historyList, history_on_disk>>
                  ELSE LET saved == Append(Deduplicated(historyList.items,
                                                        path), new_entry)
                       IN /\ historyList' = List(saved)
                          /\ IF failing = "history file"
                             THEN /\ ended' = ends("OSError")
                                  /\ UNCHANGED history_on_disk
                             ELSE /\ ended' = ends("none")
                                  /\ history_on_disk' = Index("json", saved)
  /\ UNCHANGED <<data, turn, extractor, repl, voice>>

NextManager ==
  \/ load_from_file
  \/ get_model
  \/ save_file

SpecManager == InitManager /\ [][NextManager]_vars

----------------------------------------------------------------------------
\* A turn as the interactive loop runs it: every fragment the generator
\* yields is added to current_response, and when the generator is exhausted
\* the extractor is built from it and the chat is auto-saved when enabled.

current_response == Join(yielded)

last_save_file == "a.json"

TurnCompleted ==
  /\ pc \in {"done", "failed"}
  /\ ~closed
  /\ ~Built
  /\ text' = current_response
  /\ code_blocks' = NotCached
  /\ tables' = NotCached
  /\ returned' = [call |-> "__init__"]
  /\ first' = [code_blocks |-> NotCached, tables |-> NotCached]
  /\ \E auto_save_enabled \in BOOLEAN, failing \in BOOLEAN :
       LET path == Resolve(last_save_file)
           loaded == IF history_on_disk.kind = "json"
                     THEN history_on_disk.items ELSE << >>
           saved == Append(Deduplicated(loaded, path), Entry(last_save_file))
       IN IF ~auto_save_enabled
          THEN /\ console' = <<ConsolePrint(<<"\n">>)>>
               /\ UNCHANGED <<files, history_on_disk>>
          ELSE IF failing
          THEN /\ console' = <<ConsolePrint(<<"\n">>),
                               ConsolePrint(<<"[red]Auto-save failed: ",
                                              "OSError", "[/red]">>)>>
               /\ UNCHANGED <<files, history_on_disk>>
          ELSE /\ console' = <<ConsolePrint(<<"\n">>),
                               ConsolePrint(<<"[dim italic]Auto-saved to ",
                                              last_save_file,
                                              "[/dim italic]">>)>>
               /\ files' = [f \in DOMAIN files \cup {path} |->
                              IF f = path THEN Json(ChatData("m1", messages))
                              ELSE files[f]]
               /\ history_on_disk' = Index("json", saved)
  /\ UNCHANGED <<turn, repl, data, historyList, ended, voice>>

NextRepl ==
  \/ Next
  \/ TurnCompleted

SpecRepl == Init /\ [][NextRepl]_vars

----------------------------------------------------------------------------
\* The voice trigger of the interactive loop and the recording tools of the
\* multimedia server.

MaxRecordings == 2

\* What the server can import: nothing, sounddevice alone, or sounddevice,
\* whisper and numpy.
Libraries == {"none", "sounddevice", "full"}

\* What can raise inside a tool besides an import: the audio device (sd.rec,
\* sd.stop) and the transcription (load_model, transcribe).
Faults == {"none", "device", "transcribe"}

Result(result_text, isError) == [text |-> result_text, isError |-> isError]

\* model.transcribe(audio)["text"].strip(), of the n-th recording.
Transcript(audio) == <<"said ", ToString(audio)>>

\* handle_call_tool, name == "start_recording".
start_recording(rs, fault) ==
  IF libraries = "none"
  THEN [state |-> [rs EXCEPT !.active = FALSE],
        result |-> Result(<<"Error starting recording: ", "ImportError">>,
                          TRUE)]
  ELSE IF rs.active
  THEN [state |-> rs,
        result |-> Result(<<"Error: Recording already in progress.">>, TRUE)]
  ELSE IF fault = "device"
  THEN [state |-> [rs EXCEPT !.active = FALSE],
        result |-> Result(<<"Error starting recording: ", "PortAudioError">>,
                          TRUE)]
  ELSE [state |-> [active |-> TRUE, buffer |-> nrecordings + 1],
        result |-> Result(<<"Recording started. Type '<<' again to stop.">>,
                          FALSE)]

\* handle_call_tool, name == "stop_recording".
stop_recording(rs, fault) ==
  IF libraries # "full"
  THEN [state |-> [rs EXCEPT !.active = FALSE],
        result |-> Result(<<"Error stopping recording: ", "ImportError">>,
                          TRUE)]
  ELSE IF ~rs.active
  THEN [state |-> rs,
        result |-> Result(<<"Error: No recording in progress.">>, TRUE)]
  ELSE IF fault = "device"
  THEN [state |-> [rs EXCEPT !.active = FALSE],
        result |-> Result(<<"Error stopping recording: ", "PortAudioError">>,
                          TRUE)]
  ELSE IF fault = "transcribe"
  THEN [state |-> [active |-> FALSE, buffer |-> NoAudio],
        result |-> Result(<<"Error stopping recording: ", "RuntimeError">>,
                          TRUE)]
  ELSE [state |-> [active |-> FALSE, buffer |-> NoAudio],
        result |-> Result(Transcript(rs.buffer), FALSE)]

CallTool(name, rs, fault) ==
  IF name = "start_recording" THEN start_recording(rs, fault)
  ELSE stop_recording(rs, fault)

\* The device starts a recording: at most MaxRecordings of them.
Started(name, r) == name = "start_recording" /\ ~r.result.isError

InitVoice ==
  /\ libraries \in Libraries
  /\ is_recording = FALSE
  /\ recording_state = [active |-> FALSE, buffer |-> NoAudio]
  /\ buffer = << >>
  /\ nrecordings = 0
  /\ replied = [to |-> "none"]
  /\ IdleTurn
  /\ NoExtractor
  /\ NoManager

\* user_input.strip() == vt
voice_trigger ==
  /\ \E stt_session \in {"no sessions", "none", "found"}, fault \in Faults :
       IF stt_session = "no sessions"
       THEN /\ console' = <<ConsolePrint(
                 <<"[red]Error: No MCP sessions active.[/red]">>)>>
            /\ UNCHANGED <<is_recording, recording_state, buffer, nrecordings,
                           replied>>
       ELSE IF stt_session = "none"
       THEN /\ console' = <<ConsolePrint(
                 <<"[red]Error: Speech-to-text server not active. Use --enable-tss.[/red]">>)>>
            /\ UNCHANGED <<is_recording, recording_state, buffer, nrecordings,
                           replied>>
       ELSE IF ~is_recording
       THEN LET res == start_recording(recording_state, fault)
            IN /\ Started("start_recording", res) => nrecordings < MaxRecordings
               /\ recording_state' = res.state
               /\ nrecordings' = IF Started("start_recording", res)
                                 THEN nrecordings + 1 ELSE nrecordings
               /\ console' = <<ConsolePrint(<<"[bold green]">> \o res.result.text
                                            \o <<"[/bold green]">>)>>
               /\ is_recording' = TRUE
               /\ replied' = [to |-> "voice_trigger", result |-> res.result]
               /\ UNCHANGED buffer
       ELSE LET res == stop_recording(recording_state, fault)
            IN /\ recording_state' = res.state
               /\ console' =
                    <<ConsolePrint(
                        <<"[dim]Stopping recording and transcribing...[/dim]">>),
                      IF res.result.isError
                      THEN ConsolePrint(<<"[red]Error stopping recording: ">>
                                        \o res.result.text \o <<"[/red]">>)
                      ELSE ConsolePrint(<<"[bold cyan]Transcribed:[/] ">>
                                        \o res.result.text)>>
               /\ buffer' = IF res.result.isError THEN buffer
                            ELSE buffer \o res.result.text \o <<" ">>
               /\ is_recording' = FALSE
               /\ replied' = [to |-> "voice_trigger", result |-> res.result]
               /\ UNCHANGED nrecordings
  /\ UNCHANGED <<libraries, text, code_blocks, tables, returned, first, turn,
                 repl, manager>>

\* A recording tool is called outside the voice trigger: the tools are
\* advertised to the model, which can call them in a turn.
handle_call_tool ==
  /\ \E name \in {"start_recording", "stop_recording"}, fault \in Faults :
       LET res == CallTool(name, recording_state, fault)
       IN /\ Started(name, res) => nrecordings < MaxRecordings
          /\ recording_state' = res.state
          /\ nrecordings' = IF Started(name, res) THEN nrecordings + 1
                            ELSE nrecordings
          /\ replied' = [to |-> "call_tool", result |-> res.result]
  /\ UNCHANGED <<libraries, is_recording, buffer, extractor, turn, repl,
                 manager>>

NextVoice ==
  \/ voice_trigger
  \/ handle_call_tool

SpecVoice == InitVoice /\ [][NextVoice]_vars

----------------------------------------------------------------------------
\* Helpers of the properties.

RECURSIVE Concat(_)
Concat(ss) == IF ss = << >> THEN << >> ELSE Head(ss) \o Concat(Tail(ss))

Last(s) == s[Len(s)]

\* The messages appended since the current round began.
Appended == SubSeq(messages, Len(round_start) + 1, Len(messages))

\* The tool calls the current stream has delivered, in order.
Declared == rounds[Len(rounds)].calls

----------------------------------------------------------------------------
\* C1: a stream of content chunks only: the fragments yielded concatenate to
\* the concatenation of the chunks' content, exactly one message is appended
\* (assistant, that content, no tool_calls field), the model was called once
\* and the generator has ended.
C1_ContentOnlyTurn ==
  (/\ ncalls = 0
   /\ pc \notin {"list", "open", "stream", "y_content", "y_ollama_err",
                 "failed"})
  => /\ pc = "done"
     /\ Len(chat_calls) = 1
     /\ Concat(yielded) = Concat(rounds[1].contents)
     /\ messages = Append(log0, [role |-> "assistant",
                                 content |-> Concat(rounds[1].contents)])
     /\ ~ENABLED Next

C1_Witness ==
  /\ pc = "done"
  /\ ncalls = 0
  /\ log0 # << >>
  /\ Len(rounds[1].contents) = 2
  /\ Len(yielded) = 2

\* C2: a round whose stream completed with N >= 1 tool calls appends one
\* assistant message with N tool_calls, then N tool messages, the j-th named
\* after the j-th declared call, and the next stream opens only after all N.
C2_BatchShape ==
  LET n == Len(Declared)
  IN /\ n >= 1
     /\ Len(Appended) \in 1..(n + 1)
     /\ Appended[1].role = "assistant"
     /\ "tool_calls" \in DOMAIN Appended[1]
     /\ Len(Appended[1].tool_calls) = n
     /\ \A j \in 2..Len(Appended) :
          /\ Appended[j].role = "tool"
          /\ Appended[j].name = Declared[j - 1].name

C2_BatchComplete == C2_BatchShape /\ Len(Appended) = Len(Declared) + 1

C2_InBatch ==
  \/ pc \in {"tools", "y_notfound", "y_exec", "calling", "y_toolerr"}
  \/ pc = "open" /\ rounds # << >>

C2_ToolBatch ==
  /\ [](C2_InBatch => C2_BatchShape)
  /\ []((pc = "open" /\ rounds # << >>) => C2_BatchComplete)
  /\ [][(chat_calls' # chat_calls /\ rounds # << >>) => C2_BatchComplete]_vars

C2_Witness ==
  /\ pc = "stream"
  /\ Len(rounds) = 2
  /\ Len(rounds[1].calls) = 2
  /\ Len(call_log) = 1
  /\ call_log[1].outcome = "raised"

\* The generator is exhausted: it returned or an exception left it.
Ended == pc \in {"done", "failed", "raised"}

OkResult == CHOOSE r \in ToolResults : r.has_content /\ ~r.isError

\* The end-to-end scenario: a user message, a provider that lists the tool,
\* a first round of content and one call of the tool, a second round of
\* content only, no transport failure and a provider call that succeeds.
\* The call is a plain mapping (plain) or an SDK object (~plain).
C3_Scenario(plain) ==
  /\ log0 = <<UserMessage>>
  /\ "t1" \in DOMAIN tool_to_session
  /\ rounds # << >>
  /\ Concat(rounds[1].contents) = <<"1">>
  /\ rounds[1].calls = <<[name |-> "t1", plain |-> plain]>>
  /\ Len(rounds) >= 2 => rounds[2].calls = << >>
  /\ \A e \in Errors : OllamaError(e) \notin Range(yielded)
  /\ \A k \in DOMAIN call_log : call_log[k].outcome = "ok"

C3_Expected ==
  /\ pc = "done"
  /\ Len(rounds) = 2
  /\ Len(messages) = 4
  /\ messages[1] = UserMessage
  /\ messages[2].role = "assistant"
  /\ "tool_calls" \in DOMAIN messages[2]
  /\ Len(messages[2].tool_calls) = 1
  /\ messages[3] = ToolResultMessage("t1", ExtractText(OkResult.content))
  /\ messages[4] = [role |-> "assistant",
                    content |-> Concat(rounds[2].contents)]
  /\ yielded = <<<<"1">>, ExecutingFragment("t1")>>
                 \o SelectSeq(rounds[2].contents, LAMBDA c : c # << >>)

\* C3: the end-to-end scenario with the tool call given as a plain mapping
\* ends with the log user, assistant with tool_calls, tool result, final
\* assistant, and the fragments in order.
C3_EndToEndPlainMapping == (C3_Scenario(TRUE) /\ Ended) => C3_Expected

\* The same scenario with the tool call given as an SDK object.
C3_EndToEndSdkObject == (C3_Scenario(FALSE) /\ Ended) => C3_Expected

C3_SdkObjectWitness ==
  C3_Scenario(FALSE) /\ Ended /\ Concat(rounds[2].contents) # << >>

\* C4: a call of a tool that is not in the catalog appends one tool message
\* whose content contains the name, yields one fragment, calls no provider,
\* goes on with the next call of the batch, and nothing is raised.
C4_UnknownToolStep ==
  LET fn_name == final_message.tool_calls[idx].function.name
  IN (pc = "tools" /\ fn_name \notin DOMAIN tool_to_session)
     => /\ pc' = "y_notfound"
        /\ Len(messages') = Len(messages) + 1
        /\ SubSeq(messages', 1, Len(messages)) = messages
        /\ Last(messages').role = "tool"
        /\ fn_name \in Range(Last(messages').content)
        /\ Len(yielded') = Len(yielded) + 1
        /\ SubSeq(yielded', 1, Len(yielded)) = yielded
        /\ call_log' = call_log

C4_UnknownToolResume ==
  (pc = "y_notfound" /\ ~closed /\ ~closed')
  => /\ idx' = idx + 1
     /\ pc' = IF idx < Len(final_message.tool_calls) THEN "tools" ELSE "open"
     /\ UNCHANGED <<messages, yielded, call_log, final_message>>

C5_FailedCallReported ==
  [][(/\ Len(call_log') = Len(call_log) + 1
      /\ Last(call_log').outcome \in {"raised", "error_result"})
     => /\ Len(messages') = Len(messages) + 1
        /\ Last(messages').role = "tool"
        /\ Len(yielded') = Len(yielded) + 1]_vars

\* C6: a stream that raises yields one more fragment, the diagnostic; no
\* message of that round is in the log, the model is not called again and
\* the generator ends.
C6_Entered ==
  (pc' = "y_ollama_err" /\ pc # "y_ollama_err")
  => /\ Len(yielded') = Len(yielded) + 1
     /\ SubSeq(yielded', 1, Len(yielded)) = yielded
     /\ Last(yielded')[1] = "\n[Ollama Error: "
     /\ messages' = messages

C6_After ==
  (pc = "y_ollama_err")
  => /\ pc' \in {"y_ollama_err", "failed"}
     /\ UNCHANGED <<messages, yielded, chat_calls, call_log>>

C6_StreamFailure ==
  /\ [](pc \in {"y_ollama_err", "failed"} => messages = round_start)
  /\ [](pc = "failed" => ~ENABLED Next)
  /\ [][C6_Entered]_vars
  /\ [][C6_After]_vars

C6_Witness ==
  /\ pc = "failed"
  /\ Len(rounds) = 2
  /\ Concat(rounds[2].contents) # << >>
  /\ Len(messages) = Len(log0) + 3

\* Provider s listed its tools in this turn and name n was among them.
Offers(s, n) ==
  /\ s \in DOMAIN listed
  /\ listed[s].ok
  /\ n \in Range(listed[s].tools)

\* The providers whose listing has been asked for.
Asked == DOMAIN listed

\* C7: a provider whose listing fails contributes nothing to the advertised
\* list or the dispatch map; every tool of every other provider is advertised
\* and dispatchable; with no provider, or only failing ones, the catalog is
\* empty and the turn goes on.
C7_ListingIsolation ==
  /\ Len(listed) = IF pc = "list" THEN i - 1 ELSE Len(sessions)
  /\ \A s \in Asked :
       ~listed[s].ok =>
         /\ \A k \in DOMAIN tools : tools[k].function.description # s
         /\ \A n \in DOMAIN tool_to_session : tool_to_session[n] # s
  /\ \A s \in Asked :
       listed[s].ok =>
         \A n \in Range(listed[s].tools) :
           /\ \E k \in DOMAIN tools :
                /\ tools[k].function.name = n
                /\ tools[k].function.description = s
           /\ n \in DOMAIN tool_to_session
           /\ Offers(tool_to_session[n], n)
  /\ (\A s \in Asked : ~listed[s].ok) =>
       /\ tools = << >>
       /\ DOMAIN tool_to_session = {}
       /\ pc = "open" => ENABLED OpenStream
  /\ \A c \in DOMAIN chat_calls : chat_calls[c] = tools
  /\ \A k \in DOMAIN call_log : Offers(call_log[k].session, call_log[k].name)
  /\ pc # "raised"

C7_Witness ==
  /\ Len(listed) = 2
  /\ ~listed[1].ok
  /\ pc = "done"
  /\ Len(call_log) = 1
  /\ call_log[1].session = 2

\* The last provider, in the order of the sessions, that listed name n.
LastOffering(n) ==
  CHOOSE s \in DOMAIN listed :
    Offers(s, n) /\ \A t \in DOMAIN listed : Offers(t, n) => t <= s

\* C8: a call of a name that several providers list goes to the last of
\* them in the order of the sessions, and to that provider only.
C8_LastProviderWins ==
  /\ \A k \in DOMAIN call_log :
       /\ \E s \in DOMAIN listed : Offers(s, call_log[k].name)
       /\ call_log[k].session = LastOffering(call_log[k].name)
  /\ Len(call_log) <= ncalls

C8_Witness ==
  /\ Len(call_log) = 1
  /\ call_log[1].session = 2
  /\ Offers(1, call_log[1].name)
  /\ Offers(2, call_log[1].name)

\* C9: the tool list advertised to the model holds at most one entry per
\* tool name, the one of the provider registered last.
C9_UniqueAdvertisedNames ==
  \A c \in DOMAIN chat_calls :
    \A a, b \in DOMAIN chat_calls[c] :
      chat_calls[c][a].function.name = chat_calls[c][b].function.name
      => /\ a = b
         /\ chat_calls[c][a].function.description
              = LastOffering(chat_calls[c][a].function.name)

\* C10: closing the generator at a yield of the streaming phase yields no
\* further fragment and appends nothing: the log is as it was when the
\* round began.
C10_CloseMidStream ==
  /\ []((closed /\ pc \in {"y_content", "y_ollama_err"})
        => (messages = round_start /\ ~ENABLED Next))
  /\ [][(closed' /\ ~closed) => UNCHANGED <<messages, yielded>>]_vars
  /\ [][closed => UNCHANGED <<messages, yielded>>]_vars

C10_Witness ==
  /\ closed
  /\ pc = "y_content"
  /\ Len(rounds) = 2
  /\ Len(final_message.tool_calls) = 0
  /\ Len(messages) = Len(log0) + 2

\* C11: the turn ends normally exactly when a stream completes with no tool
\* call; nothing is yielded and the model is not called after that; a turn
\* whose model asks for tools in finitely many rounds ends; no count of
\* rounds stops the loop.
C11_Done ==
  pc = "done"
  => /\ Declared = << >>
     /\ Last(messages).role = "assistant"
     /\ "tool_calls" \notin DOMAIN Last(messages)
     /\ ~ENABLED Next

C11_StreamCompletes ==
  (pc = "stream" /\ Len(messages') = Len(messages) + 1)
  => (pc' = "done" <=> Declared = << >>)

C11_TurnEnds ==
  /\ []C11_Done
  /\ [][C11_StreamCompletes]_vars
  /\ [][pc' = "done" => pc = "stream"]_vars
  /\ [](pc = "open" => ENABLED OpenStream)
  /\ <>(Ended \/ closed)

C11_Witness ==
  /\ pc = "done"
  /\ Len(rounds) = 3
  /\ Len(rounds[1].calls) = 1
  /\ Len(rounds[2].calls) = 1

\* C12: no tool-related failure, a tool-call record without the function or
\* name fields included, leaves run_chat_turn as an exception or ends the
\* turn; only a failure of the model stream does.
C12_OnlyStreamFailuresEnd ==
  /\ pc # "raised"
  /\ pc \in {"y_ollama_err", "failed"} => Last(yielded)[2] \in Errors

\* The text of every textual item and the marker for every other item.
RECURSIVE C13_TextOrMarker(_)
C13_TextOrMarker(items) ==
  IF items = << >> THEN << >>
  ELSE (IF Head(items).kind \in {"text_attr", "text_dict"}
        THEN <<Head(items).text>>
        ELSE <<"\n[Image output received]">>)
       \o C13_TextOrMarker(Tail(items))

\* C13: the tool message of a successful call holds, in order, the text of
\* each textual item of the result and the marker for each other item; no
\* item is dropped.
C13_EveryItemContributes ==
  [][(/\ Len(call_log') = Len(call_log) + 1
      /\ Last(call_log').outcome = "ok")
     => /\ Len(messages') = Len(messages) + 1
        /\ Last(messages').role = "tool"
        /\ Last(messages').content = C13_TextOrMarker(OkResult.content)]_vars

\* C14: every tool message the turn appends carries a name that is a key of
\* the catalog of the turn when the message is appended.
C14_ToolMessageNamesCatalogEntry ==
  [][(/\ Len(messages') = Len(messages) + 1
      /\ Last(messages').role = "tool")
     => Last(messages').name \in DOMAIN tool_to_session]_vars

\* C15: an assistant message the turn appended has a non-empty tool_calls
\* list or no tool_calls field; none has an empty list.
C15_NoEmptyToolCalls ==
  \A k \in (Len(log0) + 1)..Len(messages) :
    messages[k].role = "assistant"
    => \/ "tool_calls" \notin DOMAIN messages[k]
       \/ messages[k].tool_calls # << >>

C15_Witness ==
  /\ pc = "done"
  /\ Len(messages) = Len(log0) + 3
  /\ "tool_calls" \in DOMAIN messages[Len(log0) + 1]
  /\ "tool_calls" \notin DOMAIN Last(messages)
  /\ Last(messages).content # << >>

\* C16: the catalog is a snapshot of the turn: every provider is asked for
\* its tools once, in order, before the first model round; the advertised
\* list and the dispatch map are the same in every round of the turn
\* whatever the providers offer later.  A later turn is another run from
\* the initial state: the catalog starts empty and is built again.
C16_ListedOnce ==
  /\ Len(listed) = IF pc = "list" THEN i - 1 ELSE Len(sessions)
  /\ chat_calls # << >> => pc # "list"
  /\ \A c \in DOMAIN chat_calls : chat_calls[c] = chat_calls[1]
  /\ \A k \in DOMAIN call_log :
       call_log[k].session = tool_to_session[call_log[k].name]

C16_CatalogFixed ==
  pc # "list" => UNCHANGED <<listed, tools, tool_to_session>>

C16_Snapshot ==
  /\ []C16_ListedOnce
  /\ [][C16_CatalogFixed]_vars
  /\ [][Len(listed') = Len(listed) + 1
        => (pc = "list" /\ Last(listed') = sessions[i])]_vars

C16_Witness ==
  /\ Len(chat_calls) = 2
  /\ Len(listed) = 2
  /\ listed[2] # sessions[2]
  /\ Len(call_log) = 1
  /\ call_log[1].session = 2
  /\ ~sessions[2].ok

\* C17: the tool calls of a batch run one after the other: at most one
\* provider call is awaited at any time, and the provider call of a tool
\* call starts only when the tool message of every earlier call of the
\* batch is in the log.
C17_OneInFlight ==
  /\ Cardinality(in_flight) <= 1
  /\ in_flight # {} => (pc = "calling" /\ in_flight = {idx})

C17_StartsAfterEarlierMessages ==
  in_flight' # in_flight /\ in_flight' # {}
  => /\ in_flight = {}
     /\ in_flight' = {idx}
     /\ Len(Appended) = idx
     /\ \A j \in 2..idx : /\ Appended[j].role = "tool"
                          /\ Appended[j].name = Declared[j - 1].name

C17_Sequential ==
  /\ []C17_OneInFlight
  /\ [][C17_StartsAfterEarlierMessages]_vars

C17_Witness ==
  /\ pc = "calling"
  /\ idx = 2
  /\ Len(call_log) = 1
  /\ in_flight = {2}

\* C18: on one extractor, every call of extract_code_blocks, extract_tables,
\* extract_all or a print method returns, or shows, the code-block list and
\* the table list that the first extraction of each kind returned.
C18_SameAsFirst ==
  /\ returned.call = "extract_code_blocks"
     => returned.value = first.code_blocks.value
  /\ returned.call = "extract_tables" => returned.value = first.tables.value
  /\ returned.call = "extract_all"
     => /\ returned.value.tables = first.tables.value
        /\ returned.value.code_blocks = first.code_blocks.value
  /\ returned.call = "print_table"
     => console = TableOutput(first.tables.value, returned.index)
  /\ returned.call = "print_code"
     => console = CodeOutput(first.code_blocks.value, returned.index)
  /\ returned.call = "print_tables"
     => console = TablesOutput(first.tables.value)
  /\ returned.call = "print_code_blocks"
     => console = CodeBlocksOutput(first.code_blocks.value)
  /\ returned.call = "print_all"
     => console = AllOutput(first.tables.value, first.code_blocks.value)
  /\ tables.cached => tables = first.tables
  /\ code_blocks.cached => code_blocks = first.code_blocks

C18_Witness ==
  /\ returned.call = "extract_tables"
  /\ code_blocks.cached
  /\ Len(code_blocks.value) = 2
  /\ returned.value = << >>

\* The fenced blocks of t from p on, the language token being any run of
\* characters that are neither whitespace nor backticks.
RECURSIVE C19_FencedBlocksFrom(_, _)
C19_FencedBlocksFrom(t, p) ==
  IF p > Len(t) THEN << >>
  ELSE LET m == CodeMatchWith(t, p,
                              Range(t) \ (Whitespace \cup {Backtick}))
       IN IF m.ok THEN <<CodeBlock(m)>> \o C19_FencedBlocksFrom(t, m.end)
          ELSE C19_FencedBlocksFrom(t, p + 1)

\* C19: extract_code_blocks returns, in text order, one entry per fenced
\* block; its language is the token after the opening fence, whatever its
\* characters (None when there is none), its code the trimmed body.
C19_AnyLanguageToken ==
  code_blocks.cached => code_blocks.value = C19_FencedBlocksFrom(text, 1)

\* The lines of t; a newline at the end of t ends the last line.
RECURSIVE C20_Lines(_)
C20_Lines(t) ==
  IF t = << >> THEN << >>
  ELSE LET e == SkipWhile(t, 1, Range(t) \ {"\n"})
       IN <<SubSeq(t, 1, e - 1)>> \o C20_Lines(SubSeq(t, e + 1, Len(t)))

C20_PipeLine(l) == l # << >> /\ l[1] = "|" /\ l[Len(l)] = "|"

\* The cells of a line: the texts between its pipes.
RECURSIVE C20_Cells(_)
C20_Cells(l) ==
  IF l = << >> THEN << >>
  ELSE LET e == SkipWhile(l, 2, Range(l) \ {"|"})
       IN <<SubSeq(l, 2, e - 1)>> \o C20_Cells(SubSeq(l, e, Len(l)))

C20_DashCell(c) ==
  LET a == IF c # << >> /\ c[1] = ":" THEN 2 ELSE 1
      b == IF c # << >> /\ c[Len(c)] = ":" THEN Len(c) - 1 ELSE Len(c)
  IN a <= b /\ \A k \in a..b : c[k] = "-"

C20_SeparatorLine(l) ==
  /\ C20_PipeLine(l)
  /\ Len(l) >= 2
  /\ \A k \in 1..(Len(C20_Cells(l)) - 1) : C20_DashCell(C20_Cells(l)[k])

C20_Table(run) ==
  IF \E k \in DOMAIN run : C20_SeparatorLine(run[k])
  THEN <<SubSeq(Terminated(run), 1, Len(Terminated(run)) - 1)>>
  ELSE << >>

\* The qualifying maximal runs of pipe lines among ls; run is the run so far.
RECURSIVE C20_Runs(_, _)
C20_Runs(ls, run) ==
  IF ls = << >> THEN (IF run = << >> THEN << >> ELSE C20_Table(run))
  ELSE IF C20_PipeLine(Head(ls)) THEN C20_Runs(Tail(ls), Append(run, Head(ls)))
  ELSE (IF run = << >> THEN << >> ELSE C20_Table(run))
       \o C20_Runs(Tail(ls), << >>)

\* C20: extract_tables returns, in text order, the maximal runs of lines
\* that start and end with a pipe and hold a separator line, each with all
\* its lines, a last line without a newline included.
C20_WholeRuns ==
  tables.cached => tables.value = C20_Runs(C20_Lines(text), << >>)

\* C21: an indexed >> or || line shows and copies the element at that
\* position when the index lies in 0..len-1, and exactly that one; for any
\* other index it writes a single error line (the invalid-index message, or
\* the none-found message when the list is empty), shows no element and
\* leaves the clipboard alone.
C21_Shown(out) ==
  SelectSeq(out, LAMBDA e : e.op \in {"print_markdown", "rule"})

C21_Refused(out, found, kind, index) ==
  /\ Len(out) = 1
  /\ out[1].op = "print"
  /\ \/ out[1].arg = <<"[red]Invalid " \o kind \o " index:[/red] ",
                       ToString(index)>>
     \/ /\ found = << >>
        /\ out[1].arg \in {<<"[yellow]No tables found.[/yellow]">>,
                           <<"[yellow]No code blocks found.[/yellow]">>}

C21_CodeStep ==
  (Built /\ command'.name = ">>" /\ command'.idx_part.kind = "int") =>
    LET index == command'.idx_part.value
        blocks == CodeBlocksFrom(text, 1)
    IN IF index \in 0..(Len(blocks) - 1)
       THEN /\ clipboard' = blocks[index + 1].code
            /\ Len(C21_Shown(console')) = 2
            /\ C21_Shown(console')[2].op = "print_markdown"
            /\ \E lang \in {blocks[index + 1].language, <<"t", "e", "x", "t">>} :
                 C21_Shown(console')[2].arg =
                   <<Backtick, Backtick, Backtick>> \o lang \o <<"\n">>
                   \o blocks[index + 1].code
                   \o <<"\n", Backtick, Backtick, Backtick>>
       ELSE /\ clipboard' = clipboard
            /\ C21_Refused(console', blocks, "code block", index)

C21_TableStep ==
  (Built /\ command'.name = "||" /\ command'.idx_part.kind = "int") =>
    LET index == command'.idx_part.value
        found == TablesFrom(text, 1)
    IN IF index \in 0..(Len(found) - 1)
       THEN /\ clipboard' = found[index + 1]
            /\ Len(C21_Shown(console')) = 2
            /\ C21_Shown(console')[2] = ConsoleMarkdown(found[index + 1])
       ELSE /\ clipboard' = clipboard
            /\ C21_Refused(console', found, "table", index)

C22_FailedLoad ==
  [][(/\ ended'.call = "load_from_file"
      /\ files[Resolve(StripName(ended'.file_path))].kind
           \in {"missing", "bytes", "text"})
     => /\ ended'.raised = "ChatManagerError"
        /\ data' = data
        /\ historyList' = historyList]_vars

\* C23: get_model returns the 'model' field of the data loaded last, and
\* returns None without raising when no data has been loaded.
C23_GetModel ==
  ended.call = "get_model" =>
    /\ ended.raised = "none"
    /\ ended.value = IF data.set /\ data.value # JsonNull
                          /\ "model" \in DOMAIN data.value
                       THEN data.value.model
                       ELSE NoModel

\* C30: historyList never holds two entries of one resolved path; a
\* successful save_file leaves the entry of the saved path last and the only
\* one of that path, leaves the entries of the other paths as they were and
\* in their order, and does not grow the list when the path was listed.
RECURSIVE C30_Without(_, _)
C30_Without(items, path) ==
  IF items = << >> THEN << >>
  ELSE IF Head(items).path = path THEN C30_Without(Tail(items), path)
  ELSE <<Head(items)>> \o C30_Without(Tail(items), path)

C30_OnePerPath ==
  historyList.is_list =>
    \A j, k \in DOMAIN historyList.items :
      historyList.items[j].path = historyList.items[k].path => j = k

C30_Save ==
  (ended'.call = "save_file" /\ ended'.raised = "none") =>
    LET path == ended'.path
        before == historyList.items
        after == historyList'.items
    IN /\ after # << >>
       /\ Last(after).path = path
       /\ Len(after) = Len(C30_Without(after, path)) + 1
       /\ C30_Without(after, path) = C30_Without(before, path)
       /\ (\E k \in DOMAIN before : before[k].path = path)
            => Len(after) = Len(before)

C24_Exposes(tool_call, name) ==
  /\ "function" \in DOMAIN tool_call
  /\ DOMAIN tool_call.function = {"name", "arguments"}
  /\ tool_call.function.name = name
  /\ tool_call.function.arguments \in Arguments

C24_TakenIn ==
  ncalls' > ncalls =>
    LET pending == final_message'.tool_calls
        delivered == Last(rounds').calls
    IN /\ pc' = "stream"
       /\ yielded' = yielded
       /\ Len(pending) = Len(delivered)
       /\ \A k \in DOMAIN pending : C24_Exposes(pending[k], delivered[k].name)

C24_PendingCalls == [][C24_TakenIn]_vars

\* C25: the content fragments yielded so far are, at every moment, the
\* non-empty contents of the chunks taken so far, in chunk order; taking a
\* chunk with content yields that content and suspends the generator before
\* another chunk can be taken, and taking a chunk without content yields no
\* content.
C25_IsContent(fragment) ==
  \E k \in 1..MaxChunks : fragment \in Contents(k) \ {<< >>}

C25_Contents(fragments) == SelectSeq(fragments, C25_IsContent)

C25_Taken == Concat([r \in DOMAIN rounds |-> rounds[r].contents])

C25_NothingHeldBack ==
  C25_Contents(yielded) = SelectSeq(C25_Taken, LAMBDA c : c # << >>)

C25_ChunkTaken ==
  nchunks' = nchunks + 1 =>
    LET content == Last(Last(rounds').contents)
    IN IF content # << >>
       THEN yielded' = Append(yielded, content) /\ pc' = "y_content"
       ELSE C25_Contents(yielded') = C25_Contents(yielded)

C25_YieldedAtOnce == []C25_NothingHeldBack /\ [][C25_ChunkTaken]_vars

\* A chunk without content and then a chunk with content have been taken.
C25_Witness ==
  /\ Len(rounds) = 1
  /\ rounds[1].contents = << << >>, <<"2">> >>
  /\ yielded = << <<"2">> >>
  /\ pc = "y_content"

\* C26: every step of a turn leaves the log as it was and at most adds
\* messages at its end, so the log the turn began with stays a prefix of the
\* log; the assistant message, which the log shares with the generator once
\* it is appended, is not changed before the next round builds a new one.
C26_Prefix(earlier, later) ==
  /\ Len(earlier) <= Len(later)
  /\ SubSeq(later, 1, Len(earlier)) = earlier

C26_Shared == pc \in {"tools", "y_notfound", "y_exec", "calling", "y_toolerr",
                      "done", "raised"}

C26_AppendOnly ==
  /\ [][C26_Prefix(messages, messages')]_vars
  /\ []C26_Prefix(log0, messages)
  /\ [][C26_Shared => final_message' = final_message \/ pc' = "stream"]_vars
  /\ [](C26_Shared => \E k \in DOMAIN messages : messages[k] = final_message)

\* A turn with a round of tool calls has ended on a log that was not empty.
C26_Witness ==
  /\ pc = "done"
  /\ log0 = <<UserMessage>>
  /\ Len(messages) >= Len(log0) + 3

\* C28: once the generator has stopped (the turn ended, the stream failed, or
\* the caller closed it at a yield), every assistant message of the log that
\* carries k tool calls is followed by exactly k tool messages.
C28_Stopped == pc \in {"done", "failed", "raised"} \/ closed

C28_Answered(j) ==
  LET k == Len(messages[j].tool_calls)
  IN /\ j + k <= Len(messages)
     /\ \A m \in 1..k : messages[j + m].role = "tool"
     /\ j + k + 1 <= Len(messages) => messages[j + k + 1].role # "tool"

C28_Requests ==
  {j \in DOMAIN messages : /\ messages[j].role = "assistant"
                           /\ "tool_calls" \in DOMAIN messages[j]}

C28_EveryRequestAnswered ==
  C28_Stopped => \A j \in C28_Requests : C28_Answered(j)

\* C27: the extractor is built only when the generator is exhausted, and the
\* text it is given holds no tool-progress and no diagnostic fragment: it is
\* the content of the assistant message that ended the turn.
C27_FinalizedText ==
  Built =>
    /\ pc \in {"done", "failed"}
    /\ text = Join(C25_Contents(yielded))
    /\ pc = "done" => text = Last(messages).content

\* C29: after a voice trigger that reached the server, whatever the tool
\* answered, the loop's is_recording equals the server's active flag; and the
\* server holds a recording buffer only while active.
C29_FlagsAgree ==
  replied.to = "voice_trigger" => is_recording = recording_state.active

C29_BufferOnlyWhileActive ==
  recording_state.buffer # NoAudio => recording_state.active

C29_ClientMatchesServer == C29_FlagsAgree /\ C29_BufferOnlyWhileActive

====
